---------------------------- MODULE Spec2Model ----------------------------
(***************************************************************************)
(* A model of the go-cfitsio binding: the primary HDU (PrimaryHDU.Name,    *)
(* PrimaryHDU.Version, NewPrimaryHDU) and the table column (inferFormat,   *)
(* Column.read, Column.write).                                             *)
(*                                                                         *)
(* Go values are records [t |-> type, v |-> payload].  A payload is a      *)
(* sequence of elements and an element is a tuple of integers: <<x>> for a *)
(* number or a bool (0, 1), <<re, im>> for a complex number, the character *)
(* codes for a string (0 is the NUL character).                            *)
(***************************************************************************)
EXTENDS Integers, Sequences, FiniteSets, TLC

VARIABLES
    hdus,     \* f.hdus: the File's list of HDUs
    units,    \* f.c: the header-data units of the underlying FITS file
    hcall,    \* the last call on the File or on one of its HDUs, and its outcome
    col,      \* the Column descriptor: Format and Value
    ctype,    \* the Go type of the column's cells in this session
    cnum,     \* f.c: the 1-based number of the column in its table
    cells,    \* f.c: the cells of that column, by 1-based row
    dest,     \* the caller's variable that ptr points to
    wrote,    \* history: the Go value last written with success, by 0-based <<icol, irow>>
    ccall     \* the last call on the Column, and its outcome

hvars == <<hdus, units, hcall>>
cvars == <<col, ctype, cnum, cells, dest, wrote, ccall>>
vars == <<hdus, units, hcall, col, ctype, cnum, cells, dest, wrote, ccall>>

-----------------------------------------------------------------------------
(* Bounds *)

MaxCards == 1      \* cards in a header handed to NewPrimaryHDU
MaxUnits == 2      \* units the underlying file may grow to
NCols == 1         \* columns of the table
NRows == 1         \* rows of the table
MaxLen == 2        \* longest array, slice or string

-----------------------------------------------------------------------------
(* Go kinds and the cfitsio type codes *)

NumKinds ==
    {"uint8", "uint16", "uint32", "uint64", "uint",
     "int8", "int16", "int32", "int64", "int",
     "float32", "float64"}

ComplexKinds == {"complex64", "complex128"}

ElemKinds == {"bool"} \cup NumKinds \cup ComplexKinds

ScalarKinds == ElemKinds \cup {"string"}

\* The type switch shared by NewPrimaryHDU, read and write: "" is the default branch.
TypeCode(kind) ==
    CASE kind = "bool" -> "TLOGICAL"
      [] kind = "uint8" -> "TBYTE"
      [] kind = "uint16" -> "TUSHORT"
      [] kind = "uint32" -> "TUINT"
      [] kind = "uint64" -> "TULONG"
      [] kind = "uint" -> "TULONG"
      [] kind = "int8" -> "TSBYTE"
      [] kind = "int16" -> "TSHORT"
      [] kind = "int32" -> "TINT"
      [] kind = "int64" -> "TLONG"
      [] kind = "int" -> "TLONG"
      [] kind = "float32" -> "TFLOAT"
      [] kind = "float64" -> "TDOUBLE"
      [] kind = "complex64" -> "TCOMPLEX"
      [] kind = "complex128" -> "TDBLCOMPLEX"
      [] kind = "string" -> "TSTRING"
      [] OTHER -> ""

\* Go types: a scalar of a kind, an array of n elements of a kind, a slice.
Type(shape, kind, n) == [shape |-> shape, kind |-> kind, n |-> n]
NoType == Type("none", "", 0)

\* error values: nil, a native status, or a message that names a type
Err(kind, code, what) == [kind |-> kind, code |-> code, what |-> what]
NoErr == Err("nil", 0, NoType)

\* to_err(c_status): the error that carries a positive native status
to_err(status) == Err("status", status, NoType)

-----------------------------------------------------------------------------
(* Headers and cards *)

Str(codes) == [t |-> "string", v |-> <<codes>>]
Num(kind, x) == [t |-> kind, v |-> <<<<x>>>>]

PRIMARY == <<80, 82, 73, 77, 65, 82, 89>>
SCI == <<83, 67, 73>>

\* The cards a caller may put in a header: Value is an interface{}, so any Go
\* value, of a kind the type switch knows or not.
Cards ==
    { [Name |-> "EXTNAME", Value |-> Str(SCI)],
      [Name |-> "EXTNAME", Value |-> Num("int", 7)],
      [Name |-> "EXTVER", Value |-> Num("int", 2)],
      [Name |-> "EXTVER", Value |-> Num("float64", 3)],
      [Name |-> "NAXIS", Value |-> Num("int", 5)],
      [Name |-> "OBJECT", Value |-> [t |-> "struct", v |-> <<<<0>>>>]] }

CardLists(n) == UNION { [1..k -> Cards] : k \in 0..n }

Shapes == { [bitpix |-> 16, axes |-> <<2, 2>>] }

Headers ==
    { [bitpix |-> s.bitpix, axes |-> s.axes, slice |-> cs] :
        s \in Shapes, cs \in CardLists(MaxCards) }

\* Header.Get: the first card of that name, or NoCard (nil)
NoCard == [Name |-> "", Value |-> [t |-> "nil", v |-> <<>>]]

Get(hdr, name) ==
    LET idx == { i \in 1..Len(hdr.slice) : hdr.slice[i].Name = name }
    IN IF idx = {} THEN NoCard
       ELSE hdr.slice[CHOOSE i \in idx : \A j \in idx : i <= j]


-----------------------------------------------------------------------------
(* PrimaryHDU *)

HDUResult(out, val) == [out |-> out, val |-> val]

\* func (hdu *PrimaryHDU) Name() string
Name(hdu) ==
    LET card == Get(hdu.header, "EXTNAME")
    IN IF card = NoCard THEN HDUResult("ok", PRIMARY)
       ELSE IF card.Value.t = "string" THEN HDUResult("ok", card.Value.v[1])
       ELSE HDUResult("panic", <<>>)          \* card.Value.(string) on another type

\* The kinds reflect.Value.Int accepts
IntKinds == {"int", "int8", "int16", "int32", "int64"}

\* func (hdu *PrimaryHDU) Version() int
Version(hdu) ==
    LET card == Get(hdu.header, "EXTVER")
    IN IF card = NoCard THEN HDUResult("ok", <<1>>)
       ELSE IF card.Value.t \in IntKinds THEN HDUResult("ok", card.Value.v[1])
       ELSE HDUResult("panic", <<>>)          \* rv.Int() on a Value that is no int

NoHeader == [bitpix |-> 0, axes |-> <<>>, slice |-> <<>>]
NoHDU == [type |-> "nil", header |-> NoHeader]

\* newPrimaryHDU(f, hdr)
newPrimaryHDU(hdr) == [type |-> "PrimaryHDU", header |-> hdr]

AxisName(i) == IF i = 1 THEN "NAXIS1" ELSE IF i = 2 THEN "NAXIS2" ELSE "NAXIS3"

\* C.fits_create_img with status 0: a new image unit, made the current one,
\* with the structural keywords computed from bitpix and the axes.
fits_create_img(us, bitpix, axes) ==
    LET first == IF us = <<>>
                 THEN [Name |-> "SIMPLE", Value |-> Num("bool", 1)]
                 ELSE [Name |-> "XTENSION", Value |-> Str(<<73, 77, 65, 71, 69>>)]
        naxis == [i \in 1..Len(axes) |-> [Name |-> AxisName(i), Value |-> Num("int", axes[i])]]
    IN Append(us, [bitpix |-> bitpix, axes |-> axes,
                   keys |-> <<first,
                              [Name |-> "BITPIX", Value |-> Num("int", bitpix)],
                              [Name |-> "NAXIS", Value |-> Num("int", Len(axes))]>> \o naxis])

\* C.fits_update_key with status 0: the keyword of the current unit takes the
\* value, and is appended when the unit has none of that name.
fits_update_key(keys, card) ==
    IF \E i \in 1..Len(keys) : keys[i].Name = card.Name
    THEN [i \in 1..Len(keys) |-> IF keys[i].Name = card.Name THEN card ELSE keys[i]]
    ELSE Append(keys, card)

FailStatuses == {104}

Call(fn, status) == [fn |-> fn, status |-> status]

\* The loop over hdr.slice of NewPrimaryHDU, from card i on; the native call
\* number failAt (1 is fits_create_img, i+1 the update of card i) reports st.
RECURSIVE UpdateCards(_, _, _, _, _, _)
UpdateCards(keys, cards, i, failAt, st, log) ==
    IF i > Len(cards)
    THEN [keys |-> keys, out |-> "ok", err |-> NoErr, log |-> log]
    ELSE IF TypeCode(cards[i].Value.t) = ""
    THEN [keys |-> keys, out |-> "panic", err |-> NoErr, log |-> log]
    ELSE IF failAt = i + 1
    THEN [keys |-> keys, out |-> "err", err |-> to_err(st),
          log |-> Append(log, Call("fits_update_key", st))]
    ELSE UpdateCards(fits_update_key(keys, cards[i]), cards, i + 1, failAt, st,
                     Append(log, Call("fits_update_key", 0)))

\* What a header read back from the file holds: the values come back as the
\* kinds the card grammar distinguishes.
ParseKind(kind) ==
    IF kind = "bool" THEN "bool"
    ELSE IF kind \in NumKinds \ {"float32", "float64"} THEN "int"
    ELSE IF kind \in {"float32", "float64"} THEN "float64"
    ELSE IF kind \in ComplexKinds THEN "complex128"
    ELSE kind

\* f.readHDU(0) with no error: the HDU of the file's first unit
readHDU0(us) ==
    newPrimaryHDU([bitpix |-> us[1].bitpix, axes |-> us[1].axes,
                   slice |-> [i \in 1..Len(us[1].keys) |->
                       [Name |-> us[1].keys[i].Name,
                        Value |-> [t |-> ParseKind(us[1].keys[i].Value.t),
                                   v |-> us[1].keys[i].Value.v]]]])

HDUOutcome(hs, us, out, hdu, err, log) ==
    [hdus |-> hs, units |-> us, out |-> out, hdu |-> hdu, err |-> err, calls |-> log]

\* NewPrimaryHDU as it would be without the test of len(f.hdus)
DoNewPrimaryHDUNoTest(hs, us, hdr, failAt, st) ==
    IF failAt = 1
    THEN HDUOutcome(hs, us, "err", NoHDU, to_err(st), <<Call("fits_create_img", st)>>)
    ELSE
    LET us1 == fits_create_img(us, hdr.bitpix, hdr.axes)
        n == Len(us1)
        r == UpdateCards(us1[n].keys, hdr.slice, 1, failAt, st,
                         <<Call("fits_create_img", 0)>>)
        us2 == [us1 EXCEPT ![n].keys = r.keys]
    IN IF r.out # "ok" THEN HDUOutcome(hs, us2, r.out, NoHDU, r.err, r.log)
       ELSE IF failAt = Len(hdr.slice) + 2
       THEN HDUOutcome(hs, us2, "err", NoHDU, to_err(st),
                       Append(r.log, Call("readHDU", st)))
       ELSE HDUOutcome(Append(hs, readHDU0(us2)), us2, "ok", readHDU0(us2), NoErr,
                       Append(r.log, Call("readHDU", 0)))

\* func NewPrimaryHDU(f *File, hdr Header) (HDU, error)
DoNewPrimaryHDU(hs, us, hdr, failAt, st) ==
    IF failAt = 1
    THEN HDUOutcome(hs, us, "err", NoHDU, to_err(st), <<Call("fits_create_img", st)>>)
    ELSE
    LET us1 == fits_create_img(us, hdr.bitpix, hdr.axes)
        n == Len(us1)
        r == UpdateCards(us1[n].keys, hdr.slice, 1, failAt, st,
                         <<Call("fits_create_img", 0)>>)
        us2 == [us1 EXCEPT ![n].keys = r.keys]
    IN IF r.out # "ok" THEN HDUOutcome(hs, us2, r.out, NoHDU, r.err, r.log)
       ELSE IF Len(hs) > 0
       THEN HDUOutcome(hs, us2, "err", NoHDU, Err("dup", 0, NoType), r.log)
       ELSE IF failAt = Len(hdr.slice) + 2
       THEN HDUOutcome(hs, us2, "err", NoHDU, to_err(st),
                       Append(r.log, Call("readHDU", st)))
       ELSE HDUOutcome(Append(hs, readHDU0(us2)), us2, "ok", readHDU0(us2), NoErr,
                       Append(r.log, Call("readHDU", 0)))

\* idx is the place in f.hdus of the HDU a Name or Version call is made on;
\* pre_nhdus is len(f.hdus) as the call began; same_hdus and same_units say
\* that the call left f.hdus and the underlying file as they were.
NoHCall ==
    [op |-> "none", idx |-> 0, pre_nhdus |-> 0, same_hdus |-> TRUE,
     same_units |-> TRUE, calls |-> <<>>, out |-> "ok", hdu |-> NoHDU,
     err |-> NoErr, val |-> <<>>]

NewPrimaryHDU(hdr, failAt, st) ==
    /\ Len(units) < MaxUnits
    /\ LET r == DoNewPrimaryHDU(hdus, units, hdr, failAt, st)
       IN /\ hdus' = r.hdus
          /\ units' = r.units
          /\ hcall' = [op |-> "NewPrimaryHDU", idx |-> 0, pre_nhdus |-> Len(hdus),
                       same_hdus |-> (r.hdus = hdus), same_units |-> (r.units = units),
                       calls |-> r.calls, out |-> r.out, hdu |-> r.hdu, err |-> r.err,
                       val |-> <<>>]
    /\ UNCHANGED cvars

CallName(i) ==
    /\ hcall' = [NoHCall EXCEPT !.op = "Name", !.idx = i,
                                !.pre_nhdus = Len(hdus),
                                !.out = Name(hdus[i]).out, !.val = Name(hdus[i]).val]
    /\ UNCHANGED <<hdus, units>>
    /\ UNCHANGED cvars

CallVersion(i) ==
    /\ hcall' = [NoHCall EXCEPT !.op = "Version", !.idx = i,
                                !.pre_nhdus = Len(hdus),
                                !.out = Version(hdus[i]).out, !.val = Version(hdus[i]).val]
    /\ UNCHANGED <<hdus, units>>
    /\ UNCHANGED cvars

-----------------------------------------------------------------------------
(* Column: types and values *)

\* The types of the column's cells: every branch of read and write, and the
\* types their default branches meet.
SupportedTypes ==
    { Type("scalar", k, 0) : k \in ScalarKinds }
    \cup { Type("array", k, MaxLen) : k \in ElemKinds }
    \cup { Type("slice", k, 0) : k \in ElemKinds }

UnsupportedTypes ==
    { Type("scalar", "struct", 0), Type("array", "string", MaxLen),
      Type("slice", "string", 0) }

Types == SupportedTypes \cup UnsupportedTypes

Supported(t) ==
    \/ t.shape = "scalar" /\ t.kind \in ScalarKinds
    \/ t.shape \in {"array", "slice"} /\ t.kind \in ElemKinds

\* the zero element and a second element of each kind
Zero(kind) ==
    IF kind \in ComplexKinds THEN <<0, 0>> ELSE IF kind = "string" THEN <<>> ELSE <<0>>

Other(kind) ==
    CASE kind = "bool" -> <<1>>
      [] kind = "uint8" -> <<200>>
      [] kind = "int8" -> <<-5>>
      [] kind = "uint16" -> <<60000>>
      [] kind = "int16" -> <<-300>>
      [] kind \in ComplexKinds -> <<1, 2>>
      [] kind = "string" -> <<97>>
      [] OTHER -> <<7>>

\* element i of the arrays and slices written: they differ with i
Ramp(kind, i) == IF i % 2 = 1 THEN Other(kind) ELSE Zero(kind)

Val(t, v) == [t |-> t, v |-> v]

ZeroValue(t) ==
    CASE t.shape = "scalar" -> Val(t, <<Zero(t.kind)>>)
      [] t.shape = "array" -> Val(t, [i \in 1..t.n |-> Zero(t.kind)])
      [] OTHER -> Val(t, <<>>)

ValuesOf(t) ==
    CASE t.shape = "scalar" /\ t.kind = "string" ->
             { Val(t, <<<<>>>>), Val(t, <<<<97>>>>), Val(t, <<<<97, 0>>>>) }
      [] t.shape = "scalar" -> { Val(t, <<Zero(t.kind)>>), Val(t, <<Other(t.kind)>>) }
      [] t.shape = "array" ->
             { ZeroValue(t), Val(t, [i \in 1..t.n |-> Ramp(t.kind, i)]) }
      [] OTHER -> { Val(t, <<>>), Val(t, [i \in 1..MaxLen |-> Ramp(t.kind, i)]) }

HDUTypes == {"ASCII_TBL", "BINARY_TBL"}

\* gotype2FITS(v, htype): the format of a Go type in a table of that kind, ""
\* when it has none.
gotype2FITS(t, htype) ==
    LET code == CASE t.kind = "bool" -> IF htype = "BINARY_TBL" THEN "L" ELSE ""
                  [] t.kind \in {"uint8", "int8"} -> IF htype = "BINARY_TBL" THEN "B" ELSE "I4"
                  [] t.kind \in {"uint16", "int16"} -> IF htype = "BINARY_TBL" THEN "I" ELSE "I6"
                  [] t.kind \in {"uint32", "int32"} -> IF htype = "BINARY_TBL" THEN "J" ELSE "I11"
                  [] t.kind \in {"uint64", "int64", "uint", "int"} ->
                         IF htype = "BINARY_TBL" THEN "K" ELSE "I20"
                  [] t.kind = "float32" -> IF htype = "BINARY_TBL" THEN "E" ELSE "E26.17"
                  [] t.kind = "float64" -> IF htype = "BINARY_TBL" THEN "D" ELSE "D26.17"
                  [] t.kind = "complex64" -> IF htype = "BINARY_TBL" THEN "C" ELSE ""
                  [] t.kind = "complex128" -> IF htype = "BINARY_TBL" THEN "M" ELSE ""
                  [] t.kind = "string" -> IF htype = "BINARY_TBL" THEN "80A" ELSE "A80"
                  [] OTHER -> ""
    IN IF code = "" \/ ~Supported(t) THEN ""
       ELSE IF t.shape = "scalar" THEN code
       ELSE IF htype # "BINARY_TBL" THEN ""
       ELSE IF t.shape = "array" THEN ToString(t.n) \o code
       ELSE "Q" \o code

-----------------------------------------------------------------------------
(* Column: the conversions between Go, C and the stored cell *)

\* a C signed char and a C unsigned char holding the integer x
SChar(x) == ((x + 128) % 256) - 128
UChar(x) == x % 256

\* C.CString(s) as C reads it, and C.GoString(p): the characters before the
\* first NUL
RECURSIVE CString(_)
CString(s) == IF s = <<>> \/ Head(s) = 0 THEN <<>> ELSE <<Head(s)>> \o CString(Tail(s))

\* write's conversion of a scalar to the C variable it hands over
ToC(kind, e) ==
    CASE kind = "bool" -> IF e = <<1>> THEN <<1>> ELSE <<0>>
      [] kind \in {"uint8", "int8"} -> <<SChar(e[1])>>
      [] kind = "string" -> CString(e)
      [] OTHER -> e

\* read's conversion of the C variable to the Go scalar
FromC(kind, c) ==
    CASE kind = "bool" -> IF c = <<1>> THEN <<1>> ELSE <<0>>
      [] kind = "uint8" -> <<UChar(c[1])>>
      [] kind = "int8" -> <<SChar(c[1])>>
      [] kind = "string" -> CString(c)
      [] OTHER -> c

\* the library's reading of an element of the caller's memory, by type code
Interpret(tcode, c) ==
    CASE tcode = "TLOGICAL" -> IF c = <<0>> THEN <<0>> ELSE <<1>>
      [] tcode = "TBYTE" -> <<UChar(c[1])>>
      [] tcode = "TSBYTE" -> <<SChar(c[1])>>
      [] tcode = "TSTRING" -> CString(c)
      [] OTHER -> c

\* the library's store of an element into a C.char variable of read
Deposit(kind, s) == IF kind \in {"bool", "uint8", "int8"} THEN <<SChar(s[1])>> ELSE s

-----------------------------------------------------------------------------
(* Column: the table of the underlying file *)

Cell(null, elems) == [null |-> null, elems |-> elems]

\* a cell never written, and a cell that holds the null value
EmptyCell(t) == Cell(FALSE, ZeroValue(t).v)

NullElem(kind) ==
    CASE kind = "bool" -> <<0>>
      [] kind = "string" -> <<>>
      [] kind \in ComplexKinds -> <<99, 99>>
      [] OTHER -> <<99>>

NullCell(t) == Cell(TRUE, [i \in 1..Len(ZeroValue(t).v) |-> NullElem(t.kind)])

CCall(fn, tcode, c, r, first, nelem, status) ==
    [fn |-> fn, tcode |-> tcode, col |-> c, row |-> r, first |-> first,
     nelem |-> nelem, status |-> status]

\* the status of a native call at <<c, r>>: a bad column or row number, or
\* what the environment makes of it (0, or a failure of the transfer)
NativeStatus(c, r, envst) ==
    IF c \notin 1..NCols THEN 302 ELSE IF r \notin 1..NRows THEN 307 ELSE envst

\* the cell of the table at <<c, r>>, the columns other than tbl.cnum holding
\* cells never written
CellAt(tbl, t, c, r) == IF c = tbl.cnum THEN tbl.cells[r] ELSE EmptyCell(t)

\* C.fits_write_col
fits_write_col(tbl, tcode, c, r, nelem, data, envst) ==
    LET status == NativeStatus(c, r, envst)
    IN [status |-> status,
        cells |-> IF status > 0 \/ c # tbl.cnum THEN tbl.cells
                  ELSE [tbl.cells EXCEPT ![r] =
                           Cell(FALSE, [i \in 1..nelem |-> Interpret(tcode, data[i])])]]

\* C.fits_read_col: nelem elements from the first on; the buffer is left as
\* it was (zero) on a failure and past the cell's end
fits_read_col(tbl, t, c, r, nelem, envst) ==
    LET status == NativeStatus(c, r, envst)
    IN [status |-> status,
        anynul |-> IF status = 0 /\ CellAt(tbl, t, c, r).null THEN 1 ELSE 0,
        elems |-> [i \in 1..nelem |->
                      IF status = 0 /\ i <= Len(CellAt(tbl, t, c, r).elems)
                      THEN CellAt(tbl, t, c, r).elems[i] ELSE Zero(t.kind)]]

\* C.fits_read_descript: the length of a variable-length cell
fits_read_descript(tbl, t, c, r, envst) ==
    LET status == NativeStatus(c, r, envst)
    IN [status |-> status,
        len |-> IF status > 0 THEN 0 ELSE Len(CellAt(tbl, t, c, r).elems)]

-----------------------------------------------------------------------------
(* Column: inferFormat, read, write *)

\* inferFormat as it would be if a type without a format were given the
\* format of a string instead of being refused
DoInferFormatCoerce(c, htype) ==
    IF c.Format # ""
    THEN [col |-> c, out |-> "ok", err |-> NoErr, consulted |-> FALSE]
    ELSE LET str == gotype2FITS(c.Value.t, htype)
         IN [col |-> [c EXCEPT !.Format = IF str = "" THEN "80A" ELSE str],
             out |-> "ok", err |-> NoErr, consulted |-> TRUE]

\* inferFormat as it would be without the early return on a Format already
\* set
DoInferFormatAlways(c, htype) ==
    LET str == gotype2FITS(c.Value.t, htype)
    IN IF str = ""
       THEN [col |-> c, out |-> "err",
             err |-> Err("cannot_handle", 0, c.Value.t), consulted |-> TRUE]
       ELSE [col |-> [c EXCEPT !.Format = str], out |-> "ok", err |-> NoErr,
             consulted |-> TRUE]

\* func (col *Column) inferFormat(htype HDUType) error
DoInferFormat(c, htype) ==
    IF c.Format # ""
    THEN [col |-> c, out |-> "ok", err |-> NoErr, consulted |-> FALSE]
    ELSE LET str == gotype2FITS(c.Value.t, htype)
         IN IF str = ""
            THEN [col |-> c, out |-> "err",
                  err |-> Err("cannot_handle", 0, c.Value.t), consulted |-> TRUE]
            ELSE [col |-> [c EXCEPT !.Format = str], out |-> "ok", err |-> NoErr,
                  consulted |-> TRUE]

\* the index as it would be if handed to the library with its 0 base
ToNativeUntranslated(i) == i

\* c_icol := C.int(icol + 1); c_irow := C.LONGLONG(irow + 1)
ToNative(i) == i + 1

ReadOutcome(d, c, out, err, calls, anynul) ==
    [dest |-> d, col |-> c, out |-> out, err |-> err, calls |-> calls,
     anynul |-> anynul]

\* The end of read: the status becomes the error, value is stored through ptr
\* (reflect's Set panics unless value has the type ptr points to) and in
\* col.Value.
FinishRead(d, c, value, status, calls, anynul) ==
    IF value.t # d.t
    THEN ReadOutcome(d, c, "panic", NoErr, calls, anynul)
    ELSE ReadOutcome(value, [c EXCEPT !.Value = value],
                     IF status > 0 THEN "err" ELSE "ok",
                     IF status > 0 THEN to_err(status) ELSE NoErr, calls, anynul)

\* read as it would be if a failing descriptor lookup were left, like the
\* status of a transfer, to the end of the function
DoReadNoEarlyReturn(tbl, c, icol, irow, d, failAt, st, junk) ==
    LET t == d.t
        ci == ToNative(icol)
        ri == ToNative(irow)
        tcode == TypeCode(t.kind)
        env(k) == IF failAt = k THEN st ELSE 0
    IN CASE t.shape = "scalar" /\ t.kind \in ScalarKinds ->
              LET r == fits_read_col(tbl, t, ci, ri, 1, env(1))
                  cv == IF r.status > 0 /\ t.kind = "string" THEN junk
                        ELSE Deposit(t.kind, r.elems[1])
              IN FinishRead(d, c, Val(Type("scalar", t.kind, 0), <<FromC(t.kind, cv)>>),
                            r.status,
                            <<CCall("fits_read_col", tcode, ci, ri, 1, 1, r.status)>>,
                            r.anynul)
         [] t.shape = "array" /\ t.kind \in ElemKinds ->
              LET r == fits_read_col(tbl, t, ci, ri, t.n, env(1))
              IN FinishRead(d, c, Val(Type("slice", t.kind, 0), r.elems), r.status,
                            <<CCall("fits_read_col", tcode, ci, ri, 1, t.n, r.status)>>,
                            r.anynul)
         [] t.shape = "slice" /\ t.kind \in ElemKinds ->
              LET dsc == fits_read_descript(tbl, t, ci, ri, env(1))
                  r == fits_read_col(tbl, t, ci, ri, dsc.len,
                                     IF dsc.status > 0 THEN dsc.status ELSE env(2))
                  dcall == CCall("fits_read_descript", tcode, ci, ri, 0, 0, dsc.status)
              IN FinishRead(d, c, Val(Type("slice", t.kind, 0), r.elems), r.status,
                            <<dcall, CCall("fits_read_col", tcode, ci, ri, 1,
                                           dsc.len, r.status)>>,
                            r.anynul)
         [] OTHER -> ReadOutcome(d, c, "panic", NoErr, <<>>, 0)

\* func (col *Column) read(f *File, icol int, irow int64, ptr interface{}) error
\* d is the value ptr points to; native call number failAt, if made, reports st;
\* junk is what the string buffer holds when the library did not fill it.
DoRead(tbl, c, icol, irow, d, failAt, st, junk) ==
    LET t == d.t
        ci == ToNative(icol)
        ri == ToNative(irow)
        tcode == TypeCode(t.kind)
        env(k) == IF failAt = k THEN st ELSE 0
    IN CASE t.shape = "scalar" /\ t.kind \in ScalarKinds ->
              LET r == fits_read_col(tbl, t, ci, ri, 1, env(1))
                  cv == IF r.status > 0 /\ t.kind = "string" THEN junk
                        ELSE Deposit(t.kind, r.elems[1])
              IN FinishRead(d, c, Val(Type("scalar", t.kind, 0), <<FromC(t.kind, cv)>>),
                            r.status,
                            <<CCall("fits_read_col", tcode, ci, ri, 1, 1, r.status)>>,
                            r.anynul)
         [] t.shape = "array" /\ t.kind \in ElemKinds ->
              LET r == fits_read_col(tbl, t, ci, ri, t.n, env(1))
              IN FinishRead(d, c, Val(Type("slice", t.kind, 0), r.elems), r.status,
                            <<CCall("fits_read_col", tcode, ci, ri, 1, t.n, r.status)>>,
                            r.anynul)
         [] t.shape = "slice" /\ t.kind \in ElemKinds ->
              LET dsc == fits_read_descript(tbl, t, ci, ri, env(1))
                  r == fits_read_col(tbl, t, ci, ri, dsc.len, env(2))
                  dcall == CCall("fits_read_descript", tcode, ci, ri, 0, 0, dsc.status)
              IN IF dsc.status > 0
                 THEN ReadOutcome(d, c, "err", to_err(dsc.status), <<dcall>>, 0)
                 ELSE FinishRead(d, c, Val(Type("slice", t.kind, 0), r.elems), r.status,
                                 <<dcall, CCall("fits_read_col", tcode, ci, ri, 1,
                                                dsc.len, r.status)>>,
                                 r.anynul)
         [] OTHER -> ReadOutcome(d, c, "panic", NoErr, <<>>, 0)

WriteOutcome(cs, out, err, calls) ==
    [cells |-> cs, out |-> out, err |-> err, calls |-> calls]

\* func (col *Column) write(f *File, icol int, irow int64, value interface{}) error
DoWrite(tbl, icol, irow, value, failAt, st) ==
    LET t == value.t
        ci == ToNative(icol)
        ri == ToNative(irow)
        tcode == TypeCode(t.kind)
        envst == IF failAt = 1 THEN st ELSE 0
        nelem == IF t.shape = "scalar" THEN 1 ELSE Len(value.v)
        data == IF t.shape = "scalar" THEN <<ToC(t.kind, value.v[1])>> ELSE value.v
        w == fits_write_col(tbl, tcode, ci, ri, nelem, data, envst)
    IN IF t.shape = "array"
       \* rv.Pointer() on a reflect.Value of kind Array panics, before the
       \* switch on the element kind and before any native call
       THEN WriteOutcome(tbl.cells, "panic", NoErr, <<>>)
       ELSE IF Supported(t)
       THEN WriteOutcome(w.cells, IF w.status > 0 THEN "err" ELSE "ok",
                         IF w.status > 0 THEN to_err(w.status) ELSE NoErr,
                         <<CCall("fits_write_col", tcode, ci, ri, 1, nelem, w.status)>>)
       ELSE WriteOutcome(tbl.cells, "panic", NoErr, <<>>)

NoVal == Val(NoType, <<>>)

NoCCall ==
    [op |-> "none", icol |-> 0, irow |-> 0, htype |-> "", arg |-> NoVal,
     pre_format |-> "", same_value |-> TRUE, cellnull |-> FALSE,
     calls |-> <<>>, out |-> "ok", err |-> NoErr, anynul |-> 0, consulted |-> FALSE]

\* the value the caller's variable holds before a read
Sample(t) == IF Supported(t) /\ t.shape # "slice" /\ t.kind # "string"
             THEN Val(t, [i \in 1..Len(ZeroValue(t).v) |-> Other(t.kind)])
             ELSE CHOOSE v \in ValuesOf(t) : v # ZeroValue(t)

\* the table as the library holds it
Table == [cnum |-> cnum, cells |-> cells]

InferFormat(htype) ==
    /\ LET r == DoInferFormat(col, htype)
       IN /\ col' = r.col
          /\ ccall' = [NoCCall EXCEPT !.op = "inferFormat", !.htype = htype,
                                      !.pre_format = col.Format,
                                      !.same_value = (r.col.Value = col.Value),
                                      !.out = r.out, !.err = r.err,
                                      !.consulted = r.consulted]
    /\ UNCHANGED <<ctype, cnum, cells, dest, wrote>>
    /\ UNCHANGED hvars

Read(icol, irow, failAt, st, junk) ==
    /\ icol = cnum - 1
    /\ LET d == Sample(ctype)
           r == DoRead(Table, col, icol, irow, d, failAt, st, junk)
       IN /\ dest' = r.dest
          /\ col' = r.col
          /\ ccall' = [NoCCall EXCEPT !.op = "read", !.icol = icol, !.irow = irow,
                                      !.arg = d, !.pre_format = col.Format,
                                      !.same_value = (r.col.Value = col.Value),
                                      !.cellnull = cells[irow + 1].null,
                                      !.calls = r.calls, !.out = r.out, !.err = r.err,
                                      !.anynul = r.anynul]
    /\ UNCHANGED <<ctype, cnum, cells, wrote>>
    /\ UNCHANGED hvars

Write(icol, irow, value, failAt, st) ==
    /\ icol = cnum - 1
    /\ LET r == DoWrite(Table, icol, irow, value, failAt, st)
       IN /\ cells' = r.cells
          /\ wrote' = IF r.out = "ok" THEN [wrote EXCEPT ![irow] = value] ELSE wrote
          /\ ccall' = [NoCCall EXCEPT !.op = "write", !.icol = icol, !.irow = irow,
                                      !.arg = value, !.pre_format = col.Format,
                                      !.calls = r.calls, !.out = r.out, !.err = r.err]
    /\ UNCHANGED <<col, ctype, cnum, dest>>
    /\ UNCHANGED hvars

-----------------------------------------------------------------------------
(* Specifications *)

ICols == 0..(NCols - 1)
IRows == 0..(NRows - 1)

\* the native calls a read of a t may make, and what the string buffer of a
\* failed read may hold
NativeCalls(t) == IF t.shape = "slice" THEN 2 ELSE 1
Junk(t) == IF t = Type("scalar", "string", 0) THEN {<<>>, <<97>>} ELSE {<<>>}

\* a File without HDU and a Column at rest on a cell never written
InitHDU ==
    /\ hdus = <<>>
    /\ units = <<>>
    /\ hcall = NoHCall
    /\ ctype = Type("scalar", "int", 0)
    /\ col = [Format |-> "", Value |-> ZeroValue(ctype)]
    /\ cnum = 1
    /\ cells = [r \in 1..NRows |-> EmptyCell(ctype)]
    /\ dest = ZeroValue(ctype)
    /\ wrote = [r \in IRows |-> NoVal]
    /\ ccall = NoCCall

\* a File without HDU; a Column of any type, its Format empty or set, on the
\* last column of the table, its cells never written or holding nulls
Init ==
    /\ hdus = <<>>
    /\ units = <<>>
    /\ hcall = NoHCall
    /\ ctype \in Types
    /\ col \in { [Format |-> f, Value |-> ZeroValue(ctype)] : f \in {"", "1PE(2)"} }
    /\ cnum = NCols
    /\ cells \in { [r \in 1..NRows |-> c] :
                     c \in IF ctype.shape = "slice" THEN {EmptyCell(ctype)}
                           ELSE {EmptyCell(ctype), NullCell(ctype)} }
    /\ dest = Sample(ctype)
    /\ wrote = [r \in IRows |-> NoVal]
    /\ ccall = NoCCall

HDUNext ==
    \/ \E hdr \in Headers : \E failAt \in 0..(Len(hdr.slice) + 2), st \in FailStatuses :
          NewPrimaryHDU(hdr, failAt, st)
    \/ \E i \in 1..Len(hdus) : CallName(i)
    \/ \E i \in 1..Len(hdus) : CallVersion(i)

ColumnNext ==
    \/ \E htype \in HDUTypes : InferFormat(htype)
    \/ \E icol \in ICols, irow \in IRows, failAt \in 0..NativeCalls(ctype),
          st \in FailStatuses, junk \in Junk(ctype) :
          Read(icol, irow, failAt, st, junk)
    \/ \E icol \in ICols, irow \in IRows, value \in ValuesOf(ctype), failAt \in 0..1,
          st \in FailStatuses : Write(icol, irow, value, failAt, st)

Next == HDUNext \/ ColumnNext

Spec == Init /\ [][Next]_vars

\* the primary HDU alone, the column at rest
SpecHDU == InitHDU /\ [][HDUNext]_vars

\* the column alone, the File left without HDU
SpecColumn == Init /\ [][ColumnNext]_vars

-----------------------------------------------------------------------------
(* Claims on the primary HDU *)

\* a native call of the log reported a failing (positive) status
Failed(calls) == \E i \in 1..Len(calls) : calls[i].status > 0

\* C1: NewPrimaryHDU on a File whose list already holds an HDU always returns
\* a nil HDU with a non-nil error, and leaves the HDUs of the list as they are.
C1_DuplicatePrimaryIsAnError ==
    (hcall.op = "NewPrimaryHDU" /\ hcall.pre_nhdus > 0)
        => /\ hcall.out = "err"
           /\ hcall.hdu = NoHDU
           /\ hcall.err # NoErr
           /\ hcall.same_hdus

\* C2: a NewPrimaryHDU call that returns its error on a File that already has
\* an HDU has created no image unit and written no card in the underlying
\* file, and has left the HDU list as it was.
C2_DuplicatePrimaryLeavesFileUnchanged ==
    (hcall.op = "NewPrimaryHDU" /\ hcall.pre_nhdus > 0 /\ hcall.out = "err")
        => /\ hcall.same_units
           /\ hcall.same_hdus
           /\ \A i \in 1..Len(hcall.calls) :
                 hcall.calls[i].fn \in {"fits_create_img", "fits_update_key"}
                     => hcall.calls[i].status > 0

\* C9: PrimaryHDU.Name returns the value of the header's EXTNAME card when
\* there is one and "PRIMARY" when there is none, whatever the header holds.
C9_NameIsExtnameOrPrimary ==
    hcall.op = "Name"
        => LET card == Get(hdus[hcall.idx].header, "EXTNAME")
           IN /\ hcall.out = "ok"
              /\ hcall.val = IF card = NoCard THEN PRIMARY ELSE card.Value.v[1]

\* C10: PrimaryHDU.Version returns the value of the header's EXTVER card when
\* there is one and 1 when there is none, whatever the header holds.
C10_VersionIsExtverOrOne ==
    hcall.op = "Version"
        => LET card == Get(hdus[hcall.idx].header, "EXTVER")
           IN /\ hcall.out = "ok"
              /\ hcall.val = IF card = NoCard THEN <<1>> ELSE card.Value.v[1]

-----------------------------------------------------------------------------
(* Claims on the column *)

\* C3: a value written with success to a cell and then read from it into a
\* variable of the same type comes back, through ptr and in col.Value, equal
\* to the value written (a read the library fails is no round trip).
C3_RoundTrip ==
    (ccall.op = "read" /\ wrote[ccall.irow] # NoVal /\ ccall.out # "err")
        => /\ ccall.out = "ok"
           /\ dest = wrote[ccall.irow]
           /\ col.Value = wrote[ccall.irow]

\* C4: a native call that reports a failing status inside read, write or
\* NewPrimaryHDU makes the call return a non-nil error, and read and write
\* return a nil error only when every native call they made reported 0.
C4_FailingStatusIsReturned ==
    /\ (ccall.op \in {"read", "write"} /\ Failed(ccall.calls))
           => (ccall.out = "err" /\ ccall.err # NoErr)
    /\ (ccall.op \in {"read", "write"} /\ ccall.out = "ok")
           => (ccall.err = NoErr /\ ~Failed(ccall.calls))
    /\ (hcall.op = "NewPrimaryHDU" /\ Failed(hcall.calls))
           => (hcall.out = "err" /\ hcall.err # NoErr)

\* C5: inferFormat on a Column with an empty Format and a Value whose type has
\* no format for the HDU type returns an error that names the type and leaves
\* Format empty.
C5_NoFormatIsAnError ==
    (ccall.op = "inferFormat" /\ ccall.pre_format = ""
         /\ gotype2FITS(col.Value.t, ccall.htype) = "")
        => /\ ccall.out = "err"
           /\ ccall.err.kind = "cannot_handle"
           /\ ccall.err.what = col.Value.t
           /\ col.Format = ""

C5_Witness ==
    /\ ccall.op = "inferFormat"
    /\ ccall.pre_format = ""
    /\ gotype2FITS(col.Value.t, ccall.htype) = ""
    /\ ccall.out = "err"
    /\ col.Value.t = Type("scalar", "struct", 0)

\* C6: once Format is not empty, every call of inferFormat, read or write
\* leaves it as it is, and inferFormat returns nil without looking at the type
\* of the value.
C6_FormatIsKept ==
    [][col.Format # ""
          => /\ col'.Format = col.Format
             /\ ccall'.op = "inferFormat"
                    => (ccall'.out = "ok" /\ ccall'.err = NoErr /\ ~ccall'.consulted)]_vars

C6_Witness ==
    /\ ccall.op = "inferFormat"
    /\ ccall.pre_format # ""
    /\ col.Format = ccall.pre_format
    /\ gotype2FITS(col.Value.t, ccall.htype) = ""
    /\ ccall.out = "ok"

\* C7: read and write hand the library column icol+1 and row irow+1 in every
\* native call of every supported branch, the descriptor lookup of a slice
\* read as the transfer that follows it; a call that returns has made one.
C7_IndicesAreTranslated ==
    ccall.op \in {"read", "write"}
        => /\ \A i \in 1..Len(ccall.calls) :
                 /\ ccall.calls[i].col = ccall.icol + 1
                 /\ ccall.calls[i].row = ccall.irow + 1
           /\ ccall.out # "panic" => Len(ccall.calls) >= 1

C7_Witness ==
    /\ ccall.op = "read"
    /\ ccall.arg.t.shape = "slice"
    /\ Len(ccall.calls) = 2
    /\ ccall.calls[1].fn = "fits_read_descript"
    /\ ccall.calls[2].fn = "fits_read_col"
    /\ ccall.calls[1].col = ccall.calls[2].col
    /\ ccall.calls[1].row = ccall.calls[2].row
    /\ ccall.out = "ok"

\* C8: what read hands back for a cell that holds the null value differs from
\* what it hands back for a cell that holds a genuine zero.
C8_NullIsToldFromZero ==
    (ccall.op = "read" /\ ccall.out = "ok" /\ ccall.cellnull)
        => dest # ZeroValue(ccall.arg.t)

-----------------------------------------------------------------------------
(* Further claims on the primary HDU *)

\* C11: from an empty list on, whatever NewPrimaryHDU calls are made, f.hdus
\* holds at most one HDU and its first entry is the Primary HDU read back
\* from the first unit of the file; a call that returns a nil error appends
\* exactly the HDU it returns, a call that returns an error leaves the list
\* as it was.
C11_ListHoldsThePrimaryOnly ==
    /\ [](/\ Len(hdus) <= 1
          /\ hdus # <<>> => (hdus[1].type = "PrimaryHDU" /\ hdus[1] = readHDU0(units)))
    /\ [][hcall'.op = "NewPrimaryHDU"
             => /\ hcall'.out = "ok"
                    => (hcall'.err = NoErr /\ hdus' = Append(hdus, hcall'.hdu))
                /\ hcall'.out = "err" => (hcall'.err # NoErr /\ hdus' = hdus)]_vars

C11_Witness ==
    /\ hcall.op = "NewPrimaryHDU"
    /\ hcall.out = "err"
    /\ hcall.err = Err("dup", 0, NoType)
    /\ hcall.pre_nhdus = 1
    /\ Len(hdus) = 1
    /\ hdus[1] = readHDU0(units)
    /\ Len(units) = 2

\* C12: in the unit a NewPrimaryHDU call creates, the structural keywords
\* BITPIX, NAXIS and NAXISn hold the values computed from the header's bitpix
\* and axes, whatever cards the header carries: a card of the caller's with
\* such a keyword is not written over them.
C12_StructuralKeywordsAreComputed ==
    (hcall.op = "NewPrimaryHDU" /\ ~hcall.same_units)
        => LET u == units[Len(units)]
               k == [slice |-> u.keys]
           IN /\ Get(k, "BITPIX").Value = Num("int", u.bitpix)
              /\ Get(k, "NAXIS").Value = Num("int", Len(u.axes))
              /\ \A i \in 1..Len(u.axes) :
                    Get(k, AxisName(i)).Value = Num("int", u.axes[i])

-----------------------------------------------------------------------------
(* Further claims on the column *)

\* C13: write of a value of a supported type, scalar, array or slice, makes
\* exactly one native column write, at column icol+1 and row irow+1, from
\* the first element on, of 1 element for a scalar and of the length of the
\* array or slice otherwise, and returns nil when its status is 0.
C13_WriteIsOneNativeWrite ==
    (ccall.op = "write" /\ Supported(ccall.arg.t))
        => /\ Len(ccall.calls) = 1
           /\ ccall.calls[1].fn = "fits_write_col"
           /\ ccall.calls[1].col = ccall.icol + 1
           /\ ccall.calls[1].row = ccall.irow + 1
           /\ ccall.calls[1].first = 1
           /\ ccall.calls[1].nelem = CASE ccall.arg.t.shape = "scalar" -> 1
                                       [] ccall.arg.t.shape = "array" -> ccall.arg.t.n
                                       [] OTHER -> Len(ccall.arg.v)
           /\ ccall.calls[1].status = 0 => (ccall.out = "ok" /\ ccall.err = NoErr)

\* C14: a read into a slice first looks up the descriptor of the cell; when
\* the lookup fails read returns that error with no transfer made and with
\* the caller's variable and col.Value as they were; otherwise it transfers,
\* from the first element on, as many elements as the descriptor's length
\* into a new slice of that length.
C14_SliceReadLooksUpTheDescriptorFirst ==
    (ccall.op = "read" /\ ccall.arg.t.shape = "slice" /\ Supported(ccall.arg.t))
        => /\ Len(ccall.calls) >= 1
           /\ ccall.calls[1].fn = "fits_read_descript"
           /\ ccall.calls[1].status > 0
                  => /\ Len(ccall.calls) = 1
                     /\ ccall.out = "err"
                     /\ ccall.err = to_err(ccall.calls[1].status)
                     /\ dest = ccall.arg
                     /\ ccall.same_value
           /\ ccall.calls[1].status = 0
                  => /\ Len(ccall.calls) = 2
                     /\ ccall.calls[2].fn = "fits_read_col"
                     /\ ccall.calls[2].first = 1
                     /\ ccall.calls[2].nelem = Len(cells[ccall.irow + 1].elems)
                     /\ dest.t = ccall.arg.t
                     /\ Len(dest.v) = Len(cells[ccall.irow + 1].elems)
                     /\ col.Value = dest

C14_Witness ==
    /\ ccall.op = "read"
    /\ ccall.arg.t.shape = "slice"
    /\ Supported(ccall.arg.t)
    /\ Len(ccall.calls) = 1
    /\ ccall.calls[1].fn = "fits_read_descript"
    /\ ccall.calls[1].status > 0
    /\ ccall.out = "err"
    /\ dest = ccall.arg
    /\ dest.v # <<>>
    /\ col.Value # dest

\* C15: a read or write of a value whose type has no FITS mapping returns an
\* error to its caller, and NewPrimaryHDU, whatever the types of the cards'
\* values, returns to its caller.
C15_UnsupportedTypeIsReturned ==
    /\ (ccall.op \in {"read", "write"} /\ ~Supported(ccall.arg.t))
           => (ccall.out = "err" /\ ccall.err # NoErr)
    /\ hcall.op = "NewPrimaryHDU" => hcall.out # "panic"

\* C16: a read or write on a Column whose Format is still empty does not
\* reach the file: it makes no native call.
C16_NoTransferWhileUnbound ==
    (ccall.op \in {"read", "write"} /\ ccall.pre_format = "")
        => ccall.calls = <<>>

=============================================================================
